---- MODULE Spec2Model ----
(***************************************************************************)
(* Restaurant search pipeline of src/main.py (find_restaurants and its     *)
(* helpers), specification Spec; the location resolver of                  *)
(* src/location_service.py, specification SpecLocation; the place-detail   *)
(* and analysis endpoints with the two analysis services, specification    *)
(* SpecAnalysis; the search against an upstream that never stops handing   *)
(* out continuation tokens, specification SpecEndless (with fairness); the *)
(* area analysis, specification SpecArea; two requests interleaved on one  *)
(* event loop, specification SpecConcurrent.                               *)
(*                                                                         *)
(* Units.  Latitudes and longitudes are integers in hundredths of a        *)
(* degree; distances and radii are integers in hundredths of a mile (the   *)
(* code rounds distance_miles to two decimals); ratings are integers in    *)
(* tenths of a star.  Python's None and an absent dictionary key are the   *)
(* sentinel None.                                                          *)
(***************************************************************************)
EXTENDS Integers, Sequences, FiniteSets, TLC

\* ---------------------------------------------------------------- bounds
MaxPages == 2          \* pages the upstream is willing to serve per search
PageLen == 2           \* records per upstream page
MaxResultsBound == 2   \* largest max_results a request carries

\* ------------------------------------------------------------- constants
None == -999
R == 3959              \* Earth's radius in miles
MAX_RADIUS_MILES == 10
\* the default of min_rating, Query(0, ...): the object a direct call of
\* find_restaurants without that argument gets, which is no number
QueryObject == -998
\* max_results=20 of the area analysis
AreaMaxResults == 20

\* 100 * MAX_RADIUS_MILES and the lower bound ge=0.1 of the radius query
Radii == {10, 100 * MAX_RADIUS_MILES}
\* min_rating query parameter (ge=0, le=5), in tenths
MinRatings == {0, 40}
\* the origin of the search, on the prime meridian
OriginLats == {20}
OriginLngs == {0}

\* ---------------------------------------------------- upstream documents
\* a raw place record: "rating" key and geometry.location, either may be
\* absent; an absent geometry lacks both lat and lng
Place(r, la) == [rating |-> r, lat |-> la, lng |-> IF la = None THEN None ELSE 0]

\* a place at the origin rated 4.5, two places 0.05 degrees (3.45 miles)
\* north of it, rated 3.9 and unrated, and a place rated 4.5 whose record
\* has no geometry
Places ==
  { Place(45, 20), Place(39, 25), Place(None, 25), Place(45, None) }

RECURSIVE SeqsUpTo(_, _)
SeqsUpTo(S, n) ==
  IF n = 0 THEN { <<>> }
  ELSE LET shorter == SeqsUpTo(S, n - 1)
       IN  shorter \cup { Append(s, x) : s \in { t \in shorter : Len(t) = n - 1 }, x \in S }

ResultPages == SeqsUpTo(Places, PageLen)

Statuses == {"OK", "ZERO_RESULTS", "REQUEST_DENIED"}

\* What `await client.get(...)`, raise_for_status() and response.json() can
\* yield: a transport failure, an HTTP error status, a body that is not
\* JSON, or a JSON document.  more = the upstream may still hand out a
\* continuation token.
HttpResponses(more) ==
  { [kind |-> k, status |-> "", results |-> <<>>, next_page_token |-> None] :
      k \in {"transport_error", "http_status_error", "bad_json"} }
  \cup
  { [kind |-> "json", status |-> s, results |-> <<>>, next_page_token |-> None] :
      s \in Statuses \ {"OK"} }
  \cup
  { [kind |-> "json", status |-> "OK", results |-> p, next_page_token |-> t] :
      p \in ResultPages, t \in (IF more THEN {None, 1} ELSE {None}) }

NoResponse == [kind |-> "none", status |-> "", results |-> <<>>, next_page_token |-> None]

\* --------------------------------------------------------------- geodesy
Abs(x) == IF x < 0 THEN -x ELSE x

\* R * c for a central angle of d hundredths of a degree, in 1e-4 miles:
\* math.radians is pi / 180 = 0.01745 per degree, so one hundredth of a
\* degree is R * 1.745 = 6908 units of 1e-4 miles (0.69 miles)
ArcMiles(d) == (R * 1745 * d) \div 1000

\* Haversine distance.  With lon1 = lon2 the formula has a = sin(dlat/2)^2,
\* so c = |dlat|; with both points on the equator c = |dlon|.  The model's
\* coordinates all lie on one meridian.
calculate_distance(lat1, lon1, lat2, lon2) ==
  CASE lon1 = lon2 -> ArcMiles(Abs(lat2 - lat1))
    [] lon1 # lon2 /\ lat1 = 0 /\ lat2 = 0 -> ArcMiles(Abs(lon2 - lon1))

\* round(distance, 2): 1e-4 miles to hundredths of a mile
Round2(x) == (x + 50) \div 100

format_restaurant_data(place_data, user_lat, user_lng) ==
  LET restaurant_lat == IF place_data.lat = None THEN 0 ELSE place_data.lat
      restaurant_lng == IF place_data.lng = None THEN 0 ELSE place_data.lng
      distance == calculate_distance(user_lat, user_lng, restaurant_lat, restaurant_lng)
  IN  [latitude |-> restaurant_lat,
       longitude |-> restaurant_lng,
       rating |-> place_data.rating,
       distance_miles |-> Round2(distance)]

\* ------------------------------------------------------ search pipeline
\* the filter with an absent rating defaulting to the top rating
PassesFilterDefaultFive(place, min_r) ==
  (IF place.rating = None THEN 50 ELSE place.rating) >= min_r

\* place.get("rating", 0) >= min_rating
PassesFilter(place, min_r) ==
  (IF place.rating = None THEN 0 ELSE place.rating) >= min_r

\* the page loop without its `len(restaurants) >= max_results` break
RECURSIVE ProcessResultsNoCap(_, _, _, _, _, _)
ProcessResultsNoCap(rs, results, user_lat, user_lng, min_r, max_r) ==
  IF results = <<>> THEN rs
  ELSE IF PassesFilter(Head(results), min_r)
       THEN ProcessResultsNoCap(Append(rs, format_restaurant_data(Head(results), user_lat, user_lng)),
                                Tail(results), user_lat, user_lng, min_r, max_r)
       ELSE ProcessResultsNoCap(rs, Tail(results), user_lat, user_lng, min_r, max_r)

\* the `for place in data.get("results", [])` loop of one page
RECURSIVE ProcessResults(_, _, _, _, _, _)
ProcessResults(rs, results, user_lat, user_lng, min_r, max_r) ==
  IF results = <<>> THEN rs
  ELSE IF Len(rs) >= max_r THEN rs
  ELSE IF PassesFilter(Head(results), min_r)
       THEN ProcessResults(Append(rs, format_restaurant_data(Head(results), user_lat, user_lng)),
                           Tail(results), user_lat, user_lng, min_r, max_r)
       ELSE ProcessResults(rs, Tail(results), user_lat, user_lng, min_r, max_r)

\* key=lambda r: (r.distance_miles or 999, -(r.rating or 0)); `or` takes
\* the right operand for None and for 0
SortKey(r) ==
  << IF r.distance_miles = None \/ r.distance_miles = 0 THEN 99900 ELSE r.distance_miles,
     -(IF r.rating = None \/ r.rating = 0 THEN 0 ELSE r.rating) >>

KeyLess(a, b) == a[1] < b[1] \/ (a[1] = b[1] /\ a[2] < b[2])

\* list.sort is stable: r goes after every element whose key is not greater
RECURSIVE InsertSorted(_, _)
InsertSorted(r, sorted) ==
  IF sorted = <<>> THEN << r >>
  ELSE IF KeyLess(SortKey(r), SortKey(Head(sorted)))
       THEN << r >> \o sorted
       ELSE << Head(sorted) >> \o InsertSorted(r, Tail(sorted))

RECURSIVE SortRestaurants(_)
SortRestaurants(rs) ==
  IF rs = <<>> THEN <<>>
  ELSE InsertSorted(rs[Len(rs)], SortRestaurants(SubSeq(rs, 1, Len(rs) - 1)))

RestaurantSearchResponse(rs) == [restaurants |-> rs, total_found |-> Len(rs)]

NoReturn == [restaurants |-> <<>>, total_found |-> None]

\* exceptions: a type, and for HTTPException the status code, the message
\* and the upstream status embedded in the message ("" when none is)
Exc(type, code, msg, upstream) ==
  [type |-> type, status_code |-> code, detail |-> msg, upstream_status |-> upstream]

NoExc == Exc("none", 0, "", "")

\* the two except clauses around the requests; is_exception tells whether
\* the exception's class derives from Exception (asyncio.CancelledError
\* does before Python 3.8 and derives from BaseException since)
ExceptClauses(exc, is_exception) ==
  IF exc.type = "httpx.HTTPError"
  THEN Exc("HTTPException", 500, "Failed to fetch restaurant data", "")
  ELSE IF is_exception
       THEN Exc("HTTPException", 500, "Internal server error", "")
       ELSE exc

\* ----------------------------------------------------------------- state
VARIABLES
  lat, lng, radius, min_rating, max_results,  \* the request's parameters
  api_key,           \* GOOGLE_PLACES_API_KEY is set
  pc,                \* "start", "get" (awaiting client.get), "sleep"
                     \* (awaiting asyncio.sleep), "returned", "raised"
  restaurants,       \* the accumulated list
  next_page_token,
  response,          \* the last HTTP response and its decoded data
  log,               \* "request", "response" and "wait" events, in order
  arrived,           \* raw records of the processed pages, in arrival order
  raised,            \* the exception that left find_restaurants
  returned,          \* the RestaurantSearchResponse returned
  cancelled          \* the task was cancelled at a suspension point

\* state of a location resolution (LocationService.get_user_location)
VARIABLES
  largs,             \* the arguments ip_address, address, lat, lng
  lpc,               \* "start", "reverse_geocode", "geocode", "ip_lookup"
                     \* (awaiting that call), "returned", "raised"
  lcalls,            \* the remote calls issued, in order
  lresponses,        \* the responses received, in order, each with its call
  lresult,           \* the LocationData returned, or NoLocation for None
  lraised            \* the exception that left get_user_location

\* state of a detail or analysis request (get_restaurant_details,
\* get_restaurant_ai_analysis, analyze_single_restaurant)
VARIABLES
  endpoint,          \* "details" or "analysis"
  ai_module,         \* the analysis service in use: "src" or "backend"
  openai_key,        \* OPENAI_API_KEY is set
  dpc,               \* "start", "get_details", "model_call", "returned", "raised"
  dresponse,         \* the response to the place-detail request
  details,           \* what get_place_details returned
  completion,        \* the outcome of the model call
  model_calls,       \* number of model calls made
  decode_attempts,   \* number of json.loads calls on the model's text
  validated,         \* what _validate_analysis_dict made of the document
  path,              \* "none", "ai" or "fallback": what produced the analysis
  analysis,          \* the RestaurantAnalysis returned
  draised            \* the exception that left the endpoint

\* state of an area analysis (get_area_restaurant_analysis); the search it
\* awaits runs in the search variables
VARIABLES
  apc,               \* "search" (awaiting find_restaurants), "returned", "raised"
  area_result,       \* restaurants_analyzed and area_analysis of the answer
  araised            \* the exception that left the endpoint

\* state of requests served concurrently by one event loop
VARIABLES
  tasks,             \* the local variables of each request's coroutine
  heap               \* the list objects the coroutines created

searchVars == << lat, lng, radius, min_rating, max_results, pc, restaurants,
                 next_page_token, response, log, arrived, raised, returned, cancelled >>

locVars == << largs, lpc, lcalls, lresponses, lresult, lraised >>

anaVars == << endpoint, ai_module, openai_key, dpc, dresponse, details, completion,
              model_calls, decode_attempts, validated, path, analysis, draised >>

areaVars == << apc, area_result, araised >>

conVars == << tasks, heap >>

vars == << lat, lng, radius, min_rating, max_results, api_key, pc, restaurants,
           next_page_token, response, log, arrived, raised, returned, cancelled,
           locVars, anaVars, areaVars, conVars >>

params == << lat, lng, radius, min_rating, max_results, api_key >>

\* ------------------------------------------------- values of a quiet part
\* Python's None where a string is expected
NoneStr == "<None>"

\* LocationData; NoLocation stands for the None a method returns
LocationData(la, lo, city, source) ==
  [latitude |-> la, longitude |-> lo, city |-> city, source |-> source]

NoLocation == LocationData(None, None, NoneStr, NoneStr)

NoArgs == [ip_address |-> NoneStr, address |-> NoneStr, lat |-> None, lng |-> None]

\* no location resolution is running
LocIdle ==
  /\ largs = NoArgs
  /\ lpc = "idle"
  /\ lcalls = <<>>
  /\ lresponses = <<>>
  /\ lresult = NoLocation
  /\ lraised = "none"

\* the result dictionary of get_place_details; found = FALSE is the empty
\* one; rating, user_ratings_total and price_level are None when the place
\* carries none
Details(found, rating, user_ratings_total, price_level) ==
  [found |-> found, rating |-> rating, user_ratings_total |-> user_ratings_total,
   price_level |-> price_level]

NoDetails == Details(FALSE, None, None, None)

\* a response to the place-detail request: kind as for the other calls; a
\* JSON document has a status and a result that is absent, or present with
\* a rating, a rating count and a price level (None when the place carries
\* none)
DetailResponse(kind, status, has_result, rating, user_ratings_total, price_level) ==
  [kind |-> kind, status |-> status, has_result |-> has_result, rating |-> rating,
   user_ratings_total |-> user_ratings_total, price_level |-> price_level]

NoDetailResponse == DetailResponse("none", "", FALSE, None, None, None)

\* a confidence_score as the model's JSON carries it: kind "missing",
\* "number", "numeric_string", "text", "null", "nan" (the literal NaN,
\* which json.loads accepts) or "huge_integer" (an integer literal beyond
\* the range of a float); value in hundredths
Confidence(kind, value) == [kind |-> kind, value |-> value]

\* the model's JSON document: overall_rating is a string, "MISSING" or
\* "WRONG_TYPE"; strings, lists and dicts tell whether the other string
\* fields, the list fields and the category blocks are "present", "missing"
\* or "wrong" (of a type the schema refuses)
Document(overall_rating, strings, lists, dicts, confidence) ==
  [overall_rating |-> overall_rating, strings |-> strings, lists |-> lists,
   dicts |-> dicts, confidence_score |-> confidence]

NoDocument == Document("MISSING", "missing", "missing", "missing", Confidence("missing", 0))

\* the outcome of chat.completions.create: kind "raises", "empty" or
\* "text".  The fence of a text is "none", "json_fence" (```json ... ```)
\* or "plain_fence" (``` ... ```); the shape of what the fence encloses is
\* "json" (a JSON object and nothing else), "prose_json" (one object
\* inside prose), "broken_json" (braces around something that does not
\* decode), "non_object" (a JSON value that is no object and holds no
\* brace) or "no_json" (no brace at all)
Completion(kind, fence, shape, doc) ==
  [kind |-> kind, fence |-> fence, shape |-> shape, doc |-> doc]

NoCompletion == Completion("none", "none", "no_json", NoDocument)

\* RestaurantAnalysis: complete tells that every required field is there;
\* score is the food, service and atmosphere score, value_score the score
\* of value_for_money, price_desc the price wording of the text fields
RestaurantAnalysis(overall_rating, score, value_score, confidence, price_desc) ==
  [overall_rating |-> overall_rating, score |-> score, value_score |-> value_score,
   confidence_score |-> confidence, price_desc |-> price_desc, complete |-> TRUE]

NoAnalysis ==
  [overall_rating |-> NoneStr, score |-> None, value_score |-> None,
   confidence_score |-> None, price_desc |-> NoneStr, complete |-> FALSE]

\* _validate_analysis_dict has not run
NotValidated == [exc |-> "not run", value |-> NoDocument]

\* no detail or analysis request is running
AnaIdle ==
  /\ endpoint = "none"
  /\ ai_module = "none"
  /\ openai_key = FALSE
  /\ dpc = "idle"
  /\ dresponse = NoDetailResponse
  /\ details = NoDetails
  /\ completion = NoCompletion
  /\ model_calls = 0
  /\ decode_attempts = 0
  /\ validated = NotValidated
  /\ path = "none"
  /\ analysis = NoAnalysis
  /\ draised = "none"

NoAreaResult == [restaurants_analyzed |-> None, area_analysis |-> NoneStr]

\* no area analysis is running
AreaIdle ==
  /\ apc = "idle"
  /\ area_result = NoAreaResult
  /\ araised = NoExc

\* no concurrent requests are running
ConIdle ==
  /\ tasks = << >>
  /\ heap = << >>

Init ==
  /\ LocIdle
  /\ AnaIdle
  /\ AreaIdle
  /\ ConIdle
  /\ lat \in OriginLats
  /\ lng \in OriginLngs
  /\ radius \in Radii
  /\ min_rating \in MinRatings
  /\ max_results \in 1..MaxResultsBound
  /\ api_key \in BOOLEAN
  /\ pc = "start"
  /\ restaurants = <<>>
  /\ next_page_token = None
  /\ response = NoResponse
  /\ log = <<>>
  /\ arrived = <<>>
  /\ raised = NoExc
  /\ returned = NoReturn
  /\ cancelled = FALSE

Requests == Cardinality({ i \in 1..Len(log) : log[i] = "request" })

\* an exception raised inside the try block
RaiseInTry(exc, is_exception) ==
  /\ pc' = "raised"
  /\ raised' = ExceptClauses(exc, is_exception)
  /\ UNCHANGED << restaurants, next_page_token, returned >>

\* after the loops: sort, build the response, return
Finish(rs, token) ==
  /\ pc' = "returned"
  /\ restaurants' = SortRestaurants(rs)
  /\ next_page_token' = token
  /\ returned' = RestaurantSearchResponse(SortRestaurants(rs))
  /\ raised' = raised

\* while next_page_token and len(restaurants) < max_results
LoopOrFinish(rs, token) ==
  IF token # None /\ Len(rs) < max_results
  THEN /\ pc' = "sleep"
       /\ restaurants' = rs
       /\ next_page_token' = token
       /\ UNCHANGED << raised, returned >>
  ELSE Finish(rs, token)

\* the page loop gets as far as `place.get("rating", 0) >= min_rating`
\* with a min_rating that is no number: the comparison raises TypeError
ComparisonRaises(rs, results, min_r, max_r) ==
  min_r = QueryObject /\ results # << >> /\ Len(rs) < max_r

\* the raw records of a page whose status is OK join those that arrived
Arrived(resp) ==
  IF resp.kind = "json" /\ resp.status = "OK" THEN arrived \o resp.results ELSE arrived

\* what the first response makes of the search: raise_for_status(),
\* response.json(), the status check and the loop over the results
FirstPageArrives(resp) ==
  CASE resp.kind \in {"transport_error", "http_status_error"} ->
         RaiseInTry(Exc("httpx.HTTPError", 0, "", ""), TRUE)
    [] resp.kind = "bad_json" ->
         RaiseInTry(Exc("ValueError", 0, "", ""), TRUE)
    [] resp.kind = "json" /\ resp.status # "OK" ->
         RaiseInTry(Exc("HTTPException", 400, "Google Places API error", resp.status), TRUE)
    [] /\ resp.kind = "json" /\ resp.status = "OK"
       /\ ComparisonRaises(restaurants, resp.results, min_rating, max_results) ->
         RaiseInTry(Exc("TypeError", 0, "", ""), TRUE)
    [] /\ resp.kind = "json" /\ resp.status = "OK"
       /\ ~ComparisonRaises(restaurants, resp.results, min_rating, max_results) ->
         LoopOrFinish(ProcessResults(restaurants, resp.results, lat, lng,
                                     min_rating, max_results),
                      resp.next_page_token)

\* what a continuation response makes of it: a status other than OK breaks
\* out of the while loop
NextPageArrives(resp) ==
  CASE resp.kind \in {"transport_error", "http_status_error"} ->
         RaiseInTry(Exc("httpx.HTTPError", 0, "", ""), TRUE)
    [] resp.kind = "bad_json" ->
         RaiseInTry(Exc("ValueError", 0, "", ""), TRUE)
    [] resp.kind = "json" /\ resp.status # "OK" ->
         Finish(restaurants, next_page_token)
    [] /\ resp.kind = "json" /\ resp.status = "OK"
       /\ ComparisonRaises(restaurants, resp.results, min_rating, max_results) ->
         RaiseInTry(Exc("TypeError", 0, "", ""), TRUE)
    [] /\ resp.kind = "json" /\ resp.status = "OK"
       /\ ~ComparisonRaises(restaurants, resp.results, min_rating, max_results) ->
         LoopOrFinish(ProcessResults(restaurants, resp.results, lat, lng,
                                     min_rating, max_results),
                      resp.next_page_token)

\* if not GOOGLE_PLACES_API_KEY: raise (before the try block)
MissingKey ==
  /\ pc = "start"
  /\ ~api_key
  /\ pc' = "raised"
  /\ raised' = Exc("HTTPException", 500, "Google Places API key not configured", "")
  /\ UNCHANGED << params, restaurants, next_page_token, response, log, arrived,
                  returned, cancelled, locVars, anaVars, areaVars, conVars >>

\* response = await client.get(url, params=params): the request is issued
FirstRequest ==
  /\ pc = "start"
  /\ api_key
  /\ pc' = "get"
  /\ log' = Append(log, "request")
  /\ UNCHANGED << params, restaurants, next_page_token, response, arrived,
                  raised, returned, cancelled, locVars, anaVars, areaVars, conVars >>

\* the first page arrives and is processed
FirstPage ==
  /\ pc = "get"
  /\ Requests = 1
  /\ \E resp \in HttpResponses(Requests < MaxPages) :
       /\ response' = resp
       /\ arrived' = Arrived(resp)
       /\ FirstPageArrives(resp)
  /\ log' = Append(log, "response")
  /\ UNCHANGED << params, cancelled, locVars, anaVars, areaVars, conVars >>

\* the continuation request issued without the sleep
RequestWithoutSleep ==
  /\ pc = "sleep"
  /\ pc' = "get"
  /\ log' = Append(log, "request")
  /\ UNCHANGED << params, restaurants, next_page_token, response, arrived,
                  raised, returned, cancelled, locVars, anaVars, areaVars, conVars >>

\* await asyncio.sleep(2) completes and the continuation request is issued
SleepThenRequest ==
  /\ pc = "sleep"
  /\ pc' = "get"
  /\ log' = log \o << "wait", "request" >>
  /\ UNCHANGED << params, restaurants, next_page_token, response, arrived,
                  raised, returned, cancelled, locVars, anaVars, areaVars, conVars >>

\* a continuation page arrives and is processed
NextPage ==
  /\ pc = "get"
  /\ Requests > 1
  /\ \E resp \in HttpResponses(Requests < MaxPages) :
       /\ response' = resp
       /\ arrived' = Arrived(resp)
       /\ NextPageArrives(resp)
  /\ log' = Append(log, "response")
  /\ UNCHANGED << params, cancelled, locVars, anaVars, areaVars, conVars >>

\* the task is cancelled while suspended in client.get or asyncio.sleep:
\* CancelledError is raised at the await, inside the try block
Cancel ==
  /\ pc \in {"get", "sleep"}
  /\ cancelled' = TRUE
  /\ \E is_exception \in BOOLEAN :
       RaiseInTry(Exc("CancelledError", 0, "", ""), is_exception)
  /\ UNCHANGED << params, response, log, arrived, locVars, anaVars, areaVars, conVars >>

Next ==
  \/ MissingKey
  \/ FirstRequest
  \/ FirstPage
  \/ SleepThenRequest
  \/ NextPage
  \/ Cancel

Spec == Init /\ [][Next]_vars

\* ------------------------------------------------------------ properties
Terminal == pc \in {"returned", "raised"}

\* a rating with "absent" read as 0
Rating0(x) == IF x.rating = None THEN 0 ELSE x.rating

\* the arrived records whose rating passes the filter, in arrival order
PassingArrived == SelectSeq(arrived, LAMBDA p : Rating0(p) >= min_rating)

FirstN(s, n) == SubSeq(s, 1, IF Len(s) < n THEN Len(s) ELSE n)

Count(s, x) == Cardinality({ i \in 1..Len(s) : s[i] = x })

IsPermutation(a, b) ==
  /\ Len(a) = Len(b)
  /\ \A i \in 1..Len(a) : Count(a, a[i]) = Count(b, a[i])

Formatted(s) == [ i \in 1..Len(s) |-> format_restaurant_data(s[i], lat, lng) ]

\* C1: a search that returns a result returns at most max_results entries,
\* whatever the pages held.
C1_AtMostMaxResults ==
  pc = "returned" =>
    /\ Len(returned.restaurants) <= max_results
    /\ returned.total_found <= max_results

\* more passing records arrived, over two or more pages, than were asked for
C1_Witness ==
  /\ pc = "returned"
  /\ Requests >= 2
  /\ Len(PassingArrived) > max_results
  /\ Len(returned.restaurants) = max_results

\* C2: adjacent entries r1, r2 of a returned list have r1.distance <
\* r2.distance, or equal distances and r1.rating >= r2.rating (an absent
\* rating counting as 0), for every distance including 0.0.
C2_SortedByDistanceThenRating ==
  pc = "returned" =>
    \A i \in 1..(Len(returned.restaurants) - 1) :
      LET r1 == returned.restaurants[i]
          r2 == returned.restaurants[i + 1]
      IN  \/ r1.distance_miles < r2.distance_miles
          \/ r1.distance_miles = r2.distance_miles /\ Rating0(r1) >= Rating0(r2)

\* C3: when the first page's status is not OK, the error raised to the
\* caller carries that upstream status.
C3_FirstPageStatusSurfaced ==
  (pc = "raised" /\ ~cancelled /\ Requests = 1
     /\ response.kind = "json" /\ response.status # "OK")
  => raised.upstream_status = response.status

\* C4: when a continuation page request fails at the transport level or
\* returns a non-success status, the search returns the places accumulated
\* from the earlier pages.
C4_ContinuationFailureReturnsPartial ==
  (Terminal /\ ~cancelled /\ Requests >= 2
     /\ \/ response.kind \in {"transport_error", "http_status_error"}
        \/ response.kind = "json" /\ response.status # "OK")
  => (pc = "returned" /\ returned.restaurants = restaurants)

\* C5: no returned place has a rating below min_rating, an absent rating
\* counting as 0, on the first page and on every continuation page.
C5_FilterInvariant ==
  pc = "returned" =>
    \A i \in 1..Len(returned.restaurants) :
      Rating0(returned.restaurants[i]) >= min_rating

\* a positive filter rejected records of a continuation page, an unrated
\* record among the arrived ones, and places were returned
C5_Witness ==
  /\ pc = "returned"
  /\ min_rating > 0
  /\ Requests >= 2
  /\ \E i \in 1..Len(response.results) : Rating0(response.results[i]) < min_rating
  /\ \E i \in 1..Len(arrived) : arrived[i].rating = None
  /\ Len(returned.restaurants) > 0

\* C6: every returned place lies within the requested radius.
C6_WithinRadius ==
  pc = "returned" =>
    \A i \in 1..Len(returned.restaurants) :
      returned.restaurants[i].distance_miles <= radius

\* C7: when the upstream finds no place, or no place passes the filter, the
\* search returns an empty list with total_found 0 and raises nothing.
C7_EmptyResultIsValid ==
  (Terminal /\ ~cancelled
     /\ response.kind = "json" /\ response.status \in {"OK", "ZERO_RESULTS"}
     /\ PassingArrived = <<>>)
  => (pc = "returned" /\ returned.restaurants = <<>> /\ returned.total_found = 0)

\* C8: a cancelled search returns the partial results gathered so far and
\* raises nothing.
C8_CancelReturnsPartial ==
  cancelled =>
    /\ pc = "returned"
    /\ IsPermutation(returned.restaurants, restaurants)

\* C9: every continuation request comes right after the wait, which comes
\* after the receipt of the page that carried the token; no two requests
\* are issued back to back.
C9_WaitBeforeContinuation ==
  \A i \in 2..Len(log) :
    log[i] = "request" =>
      /\ i >= 3
      /\ log[i - 1] = "wait"
      /\ log[i - 2] = "response"

\* a continuation request was issued and its page processed
C9_Witness ==
  /\ Requests >= 2
  /\ pc = "returned"
  /\ Len(arrived) > Len(restaurants)

\* C10: the returned places are exactly the first max_results arrived
\* records that pass the filter, listed by ascending distance.
C10_FirstPassingByDistance ==
  pc = "returned" =>
    /\ IsPermutation(returned.restaurants, Formatted(FirstN(PassingArrived, max_results)))
    /\ \A i \in 1..(Len(returned.restaurants) - 1) :
         returned.restaurants[i].distance_miles <= returned.restaurants[i + 1].distance_miles

\* ------------------------------------------------------ location resolver
\* no search is running
SearchIdle ==
  /\ lat = 0 /\ lng = 0 /\ radius = 0 /\ min_rating = 0 /\ max_results = 0
  /\ pc = "idle"
  /\ restaurants = <<>>
  /\ next_page_token = None
  /\ response = NoResponse
  /\ log = <<>>
  /\ arrived = <<>>
  /\ raised = NoExc
  /\ returned = NoReturn
  /\ cancelled = FALSE

\* arguments of get_user_location: an address may be None, empty or a
\* text; coordinates may be None, in range or out of range (hundredths of
\* a degree)
ArgIps == {NoneStr, "8.8.8.8"}
ArgAddresses == {NoneStr, "", "1 Main St"}
ArgLats == {None, 0, 9100}
ArgLngs == {None, -7400, 18100}

\* a response to one of the resolver's remote calls.  kind is
\* "transport_error", "http_status_error", "bad_json" or "json"; a JSON
\* document is of variant
\*   "bad_status"  geocoding status other than OK
\*   "no_results"  geocoding status OK, empty results
\*   "no_geometry" geocoding result without geometry.location
\*   "error_field" IP lookup {"error": true, "reason": ...}
\*   "no_coords"   IP lookup without latitude and longitude keys
\*   "null_coords" IP lookup with latitude null
\*   "coords"      coordinates (or a reverse-geocoded result) present
LResp(call, kind, variant, la, lo) ==
  [call |-> call, kind |-> kind, variant |-> variant, lat |-> la, lng |-> lo]

FailedResponses(call) ==
  { LResp(call, k, "none", None, None) :
      k \in {"transport_error", "http_status_error", "bad_json"} }

GeocodeResponses ==
  FailedResponses("geocode")
  \cup { LResp("geocode", "json", v, None, None) :
           v \in {"bad_status", "no_results", "no_geometry"} }
  \cup { LResp("geocode", "json", "coords", 4071, -7400) }

ReverseResponses ==
  FailedResponses("reverse_geocode")
  \cup { LResp("reverse_geocode", "json", v, None, None) :
           v \in {"bad_status", "no_results", "coords"} }

IpResponses ==
  FailedResponses("ipapi")
  \cup { LResp("ipapi", "json", v, None, None) :
           v \in {"error_field", "no_coords", "null_coords"} }
  \cup { LResp("ipapi", "json", "coords", 3774, -12242) }

\* what a method body produced: an exception type ("none" when it
\* returned) and the value returned
Produced(exc, value) == [exc |-> exc, value |-> value]

\* an except clause that lets everything but transport errors through
CatchesHttpOnly(exc) == exc = "httpx.HTTPError"

\* `except Exception`: every exception the bodies raise derives from it
Catches(exc) ==
  exc \in {"httpx.HTTPError", "ValueError", "KeyError", "TypeError", "ValidationError",
           "OverflowError"}

\* try: body / except Exception: return None
TryExcept(body) ==
  IF body.exc # "none" /\ Catches(body.exc) THEN Produced("none", NoLocation) ELSE body

\* client.get, raise_for_status and response.json of any of the calls
TransportExc(resp) ==
  IF resp.kind \in {"transport_error", "http_status_error"} THEN "httpx.HTTPError"
  ELSE IF resp.kind = "bad_json" THEN "ValueError"
  ELSE "none"

geocode_address(resp) ==
  TryExcept(
    IF TransportExc(resp) # "none" THEN Produced(TransportExc(resp), NoLocation)
    ELSE IF resp.variant \in {"bad_status", "no_results"} THEN Produced("none", NoLocation)
    ELSE IF resp.variant = "no_geometry" THEN Produced("KeyError", NoLocation)
    ELSE Produced("none", LocationData(resp.lat, resp.lng, NoneStr, "geocoded_address")))

\* float(data.get("latitude", 0)): 0 for an absent key, TypeError for null
get_location_from_ip(resp) ==
  TryExcept(
    IF TransportExc(resp) # "none" THEN Produced(TransportExc(resp), NoLocation)
    ELSE IF resp.variant = "error_field" THEN Produced("none", NoLocation)
    ELSE IF resp.variant = "null_coords" THEN Produced("TypeError", NoLocation)
    ELSE IF resp.variant = "no_coords" THEN Produced("none", LocationData(0, 0, NoneStr, "ip"))
    ELSE Produced("none", LocationData(resp.lat, resp.lng, NoneStr, "ip")))

\* the address_info dictionary (formatted_address, place_id) or None; its
\* value here is the city that address_info.get("city") yields, which no
\* key of the dictionary provides
reverse_geocode(resp) ==
  TryExcept(
    IF TransportExc(resp) # "none" THEN Produced(TransportExc(resp), NoLocation)
    ELSE Produced("none", NoLocation))

\* coordinates win only when no address is given
UseCoordinatesUnlessAddress(args) ==
  args.lat # None /\ args.lng # None /\ args.address \in {NoneStr, ""}

\* if lat is not None and lng is not None
UseCoordinates(args) == args.lat # None /\ args.lng # None

\* if address
UseAddress(args) == args.address \notin {NoneStr, ""}

\* the geocoded location is never taken
GeocodeNeverSucceeded(location) == FALSE

\* if location: return location
GeocodeSucceeded(location) == location # NoLocation

LInit ==
  /\ SearchIdle
  /\ AnaIdle
  /\ AreaIdle
  /\ ConIdle
  /\ api_key \in BOOLEAN
  /\ largs \in [ip_address : ArgIps, address : ArgAddresses, lat : ArgLats, lng : ArgLngs]
  /\ lpc = "start"
  /\ lcalls = <<>>
  /\ lresponses = <<>>
  /\ lresult = NoLocation
  /\ lraised = "none"

LReturn(location) ==
  /\ lpc' = "returned"
  /\ lresult' = location
  /\ lraised' = "none"

LRaise(exc) ==
  /\ lpc' = "raised"
  /\ lresult' = NoLocation
  /\ lraised' = exc

\* Method 3 begins: get_location_from_ip issues its request
LIssueIpLookup(calls) ==
  /\ lpc' = "ip_lookup"
  /\ lcalls' = calls \o << "get_location_from_ip", "http:ipapi" >>
  /\ UNCHANGED << lresult, lraised >>

\* Method 1: coordinates given; reverse_geocode returns None at once
\* without an API key, else issues its request
LCoordinates ==
  /\ lpc = "start"
  /\ UseCoordinates(largs)
  /\ IF api_key
     THEN /\ lpc' = "reverse_geocode"
          /\ lcalls' = << "reverse_geocode", "http:reverse_geocode" >>
          /\ UNCHANGED << lresult, lraised >>
     ELSE /\ lcalls' = << "reverse_geocode" >>
          /\ LReturn(LocationData(largs.lat, largs.lng, NoneStr, "user_provided"))
  /\ UNCHANGED << searchVars, anaVars, areaVars, conVars, api_key, largs, lresponses >>

\* the reverse-geocoding response arrives; the location is built from the
\* arguments
LReverseGeocoded ==
  /\ lpc = "reverse_geocode"
  /\ \E resp \in ReverseResponses :
       /\ lresponses' = Append(lresponses, resp)
       /\ LET address_info == reverse_geocode(resp)
          IN  IF address_info.exc # "none"
              THEN LRaise(address_info.exc)
              ELSE LReturn(LocationData(largs.lat, largs.lng, address_info.value.city,
                                        "user_provided"))
  /\ UNCHANGED << searchVars, anaVars, areaVars, conVars, api_key, largs, lcalls >>

\* Method 2: an address given; geocode_address returns None at once without
\* an API key (and Method 3 begins), else issues its request
LAddress ==
  /\ lpc = "start"
  /\ ~UseCoordinates(largs)
  /\ UseAddress(largs)
  /\ IF api_key
     THEN /\ lpc' = "geocode"
          /\ lcalls' = << "geocode_address", "http:geocode" >>
          /\ UNCHANGED << lresult, lraised >>
     ELSE LIssueIpLookup(<< "geocode_address" >>)
  /\ UNCHANGED << searchVars, anaVars, areaVars, conVars, api_key, largs, lresponses >>

\* the geocoding response arrives: return the location or go on to Method 3
LGeocoded ==
  /\ lpc = "geocode"
  /\ \E resp \in GeocodeResponses :
       /\ lresponses' = Append(lresponses, resp)
       /\ LET location == geocode_address(resp)
          IN  IF location.exc # "none"
              THEN LRaise(location.exc) /\ lcalls' = lcalls
              ELSE IF GeocodeSucceeded(location.value)
                   THEN LReturn(location.value) /\ lcalls' = lcalls
                   ELSE LIssueIpLookup(lcalls)
  /\ UNCHANGED << searchVars, anaVars, areaVars, conVars, api_key, largs >>

\* neither coordinates nor an address: Method 3 at once
LNoAddress ==
  /\ lpc = "start"
  /\ ~UseCoordinates(largs)
  /\ ~UseAddress(largs)
  /\ LIssueIpLookup(<<>>)
  /\ UNCHANGED << searchVars, anaVars, areaVars, conVars, api_key, largs, lresponses >>

\* the IP lookup response arrives: return the location or None
LIpLookedUp ==
  /\ lpc = "ip_lookup"
  /\ \E resp \in IpResponses :
       /\ lresponses' = Append(lresponses, resp)
       /\ LET location == get_location_from_ip(resp)
          IN  IF location.exc # "none"
              THEN LRaise(location.exc)
              ELSE LReturn(location.value)
  /\ UNCHANGED << searchVars, anaVars, areaVars, conVars, api_key, largs, lcalls >>

LNext ==
  \/ LCoordinates
  \/ LReverseGeocoded
  \/ LAddress
  \/ LGeocoded
  \/ LNoAddress
  \/ LIpLookedUp

SpecLocation == LInit /\ [][LNext]_vars

\* ------------------------------------------- properties of the resolver
LTerminal == lpc \in {"returned", "raised"}

Called(name) == \E i \in 1..Len(lcalls) : lcalls[i] = name

CallIndex(name) == CHOOSE i \in 1..Len(lcalls) : lcalls[i] = name

\* the geocoding request was answered with coordinates
GeocodingSucceeded ==
  \E i \in 1..Len(lresponses) :
    lresponses[i].call = "geocode" /\ lresponses[i].variant = "coords"

CoordinatesGiven == largs.lat # None /\ largs.lng # None

AddressGiven == largs.address \notin {NoneStr, ""}

\* C12: given both coordinates and an address, the resolver returns the
\* coordinate-derived result tagged user_provided and issues neither the
\* address geocoding nor the IP lookup.
C12_CoordinatesFirst ==
  (CoordinatesGiven /\ AddressGiven) =>
    /\ ~Called("geocode_address") /\ ~Called("http:geocode")
    /\ ~Called("get_location_from_ip") /\ ~Called("http:ipapi")
    /\ LTerminal =>
         /\ lpc = "returned"
         /\ lresult.source = "user_provided"
         /\ lresult.latitude = largs.lat
         /\ lresult.longitude = largs.lng

\* coordinates, an address and an IP were given and a location came back
C12_Witness ==
  /\ CoordinatesGiven /\ AddressGiven /\ largs.ip_address # NoneStr
  /\ lpc = "returned"
  /\ Called("http:reverse_geocode")
  /\ lresult.source = "user_provided"

\* C13: no user_provided location has a latitude outside [-90, 90] or a
\* longitude outside [-180, 180].
C13_UserCoordinatesInRange ==
  (lpc = "returned" /\ lresult.source = "user_provided") =>
    /\ -9000 <= lresult.latitude /\ lresult.latitude <= 9000
    /\ -18000 <= lresult.longitude /\ lresult.longitude <= 18000

\* C14: a returned location carries coordinates that the caller, the
\* geocoder or the IP lookup supplied; an IP response without coordinates
\* yields no location.
C14_NoPlaceholderLocation ==
  (lpc = "returned" /\ lresult # NoLocation) =>
    \/ lresult.source = "user_provided"
         /\ lresult.latitude = largs.lat /\ lresult.longitude = largs.lng
    \/ \E i \in 1..Len(lresponses) :
         /\ lresponses[i].variant = "coords"
         /\ lresponses[i].call \in {"geocode", "ipapi"}
         /\ lresult.latitude = lresponses[i].lat
         /\ lresult.longitude = lresponses[i].lng

\* C15: without explicit coordinates the address is geocoded first; the IP
\* lookup is issued exactly when no address was given or geocoding was
\* unsuccessful; a successful geocoding is returned without an IP lookup.
C15_FallThroughOrder ==
  ~CoordinatesGiven =>
    /\ (Called("get_location_from_ip") /\ AddressGiven) =>
         /\ Called("geocode_address")
         /\ CallIndex("geocode_address") < CallIndex("get_location_from_ip")
    /\ GeocodingSucceeded => ~Called("get_location_from_ip") /\ ~Called("http:ipapi")
    /\ LTerminal =>
         /\ Called("http:ipapi") <=> (~AddressGiven \/ ~GeocodingSucceeded)
         /\ GeocodingSucceeded =>
              /\ lpc = "returned"
              /\ lresult.source = "geocoded_address"

\* geocoding failed and the IP lookup that followed gave the location
C15_Witness ==
  /\ ~CoordinatesGiven /\ AddressGiven
  /\ Called("http:geocode")
  /\ ~GeocodingSucceeded
  /\ Called("http:ipapi")
  /\ lpc = "returned"
  /\ lresult.source = "ip"

\* C16: the resolver never raises: whatever the remote calls do, it returns
\* a location or None.
C16_ResolverNeverRaises ==
  /\ lpc # "raised"
  /\ lraised = "none"
  /\ LTerminal => (lresult = NoLocation \/ lresult.source \in {"user_provided", "geocoded_address", "ip"})

\* a malformed geocoding payload and an IP response with an error field
\* ended in not-found
C16_Witness ==
  /\ lpc = "returned"
  /\ lresult = NoLocation
  /\ \E i \in 1..Len(lresponses) :
       lresponses[i].call = "geocode" /\ lresponses[i].kind = "bad_json"
  /\ \E i \in 1..Len(lresponses) :
       lresponses[i].call = "ipapi" /\ lresponses[i].variant = "error_field"

\* -------------------------------------------- place details and analysis
\* ratings a place-detail result carries, in tenths; None when it has none
DetailRatings == {None, 0, 29, 30, 34, 35, 39, 40, 43, 44, 45, 50}

\* user_ratings_total and price_level of a place-detail result: both
\* absent, or 120 ratings and price level 3 (the request does not list
\* price_level among its fields; the endpoint reads it all the same)
DetailExtras == { << None, None >>, << 120, 3 >> }

DetailResponses ==
  { DetailResponse(k, "", FALSE, None, None, None) :
      k \in {"transport_error", "http_status_error", "bad_json"} }
  \cup { DetailResponse("json", "NOT_FOUND", FALSE, None, None, None),
         DetailResponse("json", "OK", FALSE, None, None, None) }
  \cup { DetailResponse("json", "OK", TRUE, r, x[1], x[2]) :
           r \in DetailRatings, x \in DetailExtras }

\* a detail fetcher that hands out the result whatever the status says
get_place_details_any_status(resp) ==
  IF resp.kind = "json"
  THEN Produced("none", Details(TRUE, resp.rating, resp.user_ratings_total, resp.price_level))
  ELSE Produced("none", NoDetails)

\* get_place_details: the result on status OK, {} on any other status and
\* on any exception
get_place_details(resp) ==
  LET body ==
        IF resp.kind \in {"transport_error", "http_status_error"}
        THEN Produced("httpx.HTTPError", NoDetails)
        ELSE IF resp.kind = "bad_json" THEN Produced("ValueError", NoDetails)
        ELSE IF resp.status = "OK"
             THEN Produced("none", Details(resp.has_result, resp.rating,
                                           resp.user_ratings_total, resp.price_level))
             ELSE Produced("none", NoDetails)
  IN  IF body.exc # "none" /\ Catches(body.exc) THEN Produced("none", NoDetails) ELSE body

\* documents the model may send
DocRatings == {"Excellent", "Amazing", "MISSING", "WRONG_TYPE"}
FieldStates == {"present", "missing", "wrong"}
Confidences ==
  { Confidence("missing", 0), Confidence("number", -20), Confidence("number", 85),
    Confidence("number", 170), Confidence("numeric_string", 170),
    Confidence("text", 0), Confidence("null", 0), Confidence("nan", 0),
    Confidence("huge_integer", 0) }

Documents ==
  { Document(o, st, li, di, c) :
      o \in DocRatings, st \in FieldStates, li \in FieldStates, di \in FieldStates,
      c \in Confidences }

Fences == {"none", "json_fence", "plain_fence"}

Completions ==
  { Completion(k, "none", "no_json", NoDocument) : k \in {"raises", "empty"} }
  \cup { Completion("text", f, sh, NoDocument) :
           f \in Fences, sh \in {"no_json", "broken_json", "non_object"} }
  \cup { Completion("text", f, sh, doc) :
           f \in Fences, sh \in {"json", "prose_json"}, doc \in Documents }

\* json.loads on the text as analyze_restaurant has it before the first
\* decode: the backend service has cut a leading ```json and a trailing
\* ``` (a leading ``` without "json" stays), the other service has cut
\* nothing
StrictDecodes(module, c) ==
  /\ c.shape \in {"json", "non_object"}
  /\ \/ c.fence = "none"
     \/ module = "backend" /\ c.fence = "json_fence"

\* analysis_text.find('{') != -1; end_idx, being rfind('}') + 1, is never -1
HasBrace(c) == c.shape \in {"json", "prose_json", "broken_json"}

\* json.loads on the span from the first "{" to the last "}"
SpanDecodes(c) == c.shape \in {"json", "prose_json"}

\* a parse that stops after the strict decode
ParseStrictOnly(module, c) ==
  [decodes |-> 1, attempt |-> IF StrictDecodes(module, c) THEN 1 ELSE 0]

\* PARSE: the number of json.loads calls made and the attempt that
\* decoded (0 when none did).  The span is decoded only after the strict
\* decode failed and only when the text holds a "{".
Parse(module, c) ==
  IF StrictDecodes(module, c) THEN [decodes |-> 1, attempt |-> 1]
  ELSE IF ~HasBrace(c) THEN [decodes |-> 1, attempt |-> 0]
  ELSE [decodes |-> 2, attempt |-> IF SpanDecodes(c) THEN 2 ELSE 0]

\* whether a JSON value comes out of the text
Parses(module, c) == Parse(module, c).attempt # 0

Clamp(v) == IF v < 0 THEN 0 ELSE IF v > 100 THEN 100 ELSE v

\* the confidence_score step of _validate_analysis_dict: float() takes
\* numbers and numeric strings and the result is clamped; ValueError and
\* TypeError give 0.5; float() of an integer beyond the float range raises
\* OverflowError, which the step does not catch; max(0.0, min(1.0, nan))
\* is 1.0
ValidateConfidence(conf) ==
  IF conf.kind = "missing" THEN Produced("none", conf)
  ELSE IF conf.kind \in {"number", "numeric_string"}
       THEN Produced("none", Confidence("number", Clamp(conf.value)))
  ELSE IF conf.kind = "nan" THEN Produced("none", Confidence("number", 100))
  ELSE IF conf.kind = "huge_integer" THEN Produced("OverflowError", conf)
  ELSE Produced("none", Confidence("number", 50))

\* _validate_analysis_dict of the backend service: an existing
\* confidence_score is coerced and clamped (0.5 when not numeric); string,
\* list and dict fields that are absent or of the wrong type get defaults.
\* A decoded value that is no object makes it raise TypeError.
_validate_analysis_dict(c) ==
  LET confidence == ValidateConfidence(c.doc.confidence_score)
  IN  IF c.shape = "non_object" THEN Produced("TypeError", NoDocument)
      ELSE IF confidence.exc # "none" THEN Produced(confidence.exc, NoDocument)
      ELSE Produced("none",
             Document(IF c.doc.overall_rating \in {"MISSING", "WRONG_TYPE"}
                      THEN "Not available" ELSE c.doc.overall_rating,
                      "present", "present", "present", confidence.value))

\* the score of a category block the model or the defaulting wrote
BlockScore == 5

\* RestaurantAnalysis(**analysis_dict): pydantic refuses a missing field, a
\* field of the wrong type and a confidence_score that is no number or too
\* large for a float; the backend model also refuses one outside [0, 1].
\* NaN is a float; the analysis then carries None for it here.
Construct(module, doc) ==
  IF \/ doc.overall_rating \in {"MISSING", "WRONG_TYPE"}
     \/ doc.strings # "present" \/ doc.lists # "present" \/ doc.dicts # "present"
     \/ doc.confidence_score.kind \notin {"number", "numeric_string", "nan"}
     \/ /\ module = "backend"
        /\ \/ doc.confidence_score.kind = "nan"
           \/ doc.confidence_score.value < 0
           \/ doc.confidence_score.value > 100
  THEN Produced("ValidationError", NoAnalysis)
  ELSE Produced("none",
         RestaurantAnalysis(doc.overall_rating, BlockScore, BlockScore,
                            IF doc.confidence_score.kind = "nan" THEN None
                            ELSE doc.confidence_score.value,
                            "ai"))

\* analyze_restaurant after the model call: exc and value are what it
\* raised and returned (NoAnalysis for None), decodes the json.loads calls
\* it made, validated what _validate_analysis_dict did.  The whole body
\* sits in try / except Exception: return None.
analyze_restaurant(module, c) ==
  LET parse == Parse(module, c)
      check == IF module = "backend" /\ parse.attempt # 0
               THEN _validate_analysis_dict(c) ELSE NotValidated
      body ==
        IF c.kind = "raises" THEN Produced("ValueError", NoAnalysis)
        ELSE IF c.kind = "empty" THEN Produced("none", NoAnalysis)
        ELSE IF parse.attempt = 0 THEN Produced("none", NoAnalysis)
        ELSE IF module = "backend"
             THEN IF check.exc # "none" THEN Produced(check.exc, NoAnalysis)
                  ELSE Construct(module, check.value)
        ELSE IF c.shape = "non_object" THEN Produced("TypeError", NoAnalysis)
        ELSE Construct(module, c.doc)
      caught == IF body.exc # "none" /\ Catches(body.exc)
                THEN Produced("none", NoAnalysis) ELSE body
  IN  [exc |-> caught.exc, value |-> caught.value,
       decodes |-> IF c.kind = "text" THEN parse.decodes ELSE 0,
       validated |-> IF c.kind = "text" THEN check ELSE NotValidated]

\* thresholds that take a rating of exactly 4.5 for Very Good
FallbackRatingStrict(rating) ==
  IF rating > 45 THEN "Excellent"
  ELSE IF rating >= 40 THEN "Very Good"
  ELSE IF rating >= 35 THEN "Good"
  ELSE IF rating >= 30 THEN "Fair"
  ELSE "Poor"

\* the rating thresholds of the fallback
FallbackRating(rating) ==
  IF rating >= 45 THEN "Excellent"
  ELSE IF rating >= 40 THEN "Very Good"
  ELSE IF rating >= 35 THEN "Good"
  ELSE IF rating >= 30 THEN "Fair"
  ELSE "Poor"

\* price_descriptions.get(price_level, "moderately priced"); a price_level
\* of None keeps the default wording in both services
PriceDescription(price_level) ==
  CASE price_level = 1 -> "budget-friendly"
    [] price_level = 2 -> "moderately priced"
    [] price_level = 3 -> "upscale"
    [] price_level = 4 -> "fine dining"
    [] OTHER -> "moderately priced"

\* the score of value_for_money in the fallback
ValueScore == 7

\* create_fallback_analysis: restaurant_data carries the keys "rating",
\* "total_ratings" and "price_level", which the analysis endpoint always
\* sets (to None where the place has none), so the defaults of .get() are
\* not used; None >= 4.5 raises TypeError; the food, service and
\* atmosphere scores are int(rating * 2); total_ratings only appears in
\* the texts
create_fallback_analysis(restaurant_data) ==
  IF restaurant_data.rating = None THEN Produced("TypeError", NoAnalysis)
  ELSE Produced("none",
         RestaurantAnalysis(FallbackRating(restaurant_data.rating),
                            (restaurant_data.rating * 2) \div 10,
                            ValueScore, 30,
                            PriceDescription(restaurant_data.price_level)))

AInit ==
  /\ SearchIdle
  /\ LocIdle
  /\ AreaIdle
  /\ ConIdle
  /\ api_key \in BOOLEAN
  /\ endpoint \in {"details", "analysis"}
  /\ ai_module \in {"src", "backend"}
  /\ openai_key \in BOOLEAN
  /\ dpc = "start"
  /\ dresponse = NoDetailResponse
  /\ details = NoDetails
  /\ completion = NoCompletion
  /\ model_calls = 0
  /\ decode_attempts = 0
  /\ validated = NotValidated
  /\ path = "none"
  /\ analysis = NoAnalysis
  /\ draised = "none"

anaParams == << endpoint, ai_module, openai_key >>

\* an exception leaves the endpoint
DRaise(exc) ==
  /\ dpc' = "raised"
  /\ draised' = exc

\* analyze_single_restaurant, from `if not analysis` on: the fallback when
\* analyze_restaurant gave None, then the endpoint's return
DFinish(ai, restaurant_data) ==
  IF ai # NoAnalysis
  THEN /\ path' = "ai"
       /\ analysis' = ai
       /\ dpc' = "returned"
       /\ draised' = draised
  ELSE LET fallback == create_fallback_analysis(restaurant_data)
       IN  /\ path' = "fallback"
           /\ analysis' = fallback.value
           /\ IF fallback.exc # "none" THEN DRaise(fallback.exc)
              ELSE dpc' = "returned" /\ draised' = draised

\* if not GOOGLE_PLACES_API_KEY: raise HTTPException(500)
DMissingKey ==
  /\ dpc = "start"
  /\ ~api_key
  /\ DRaise("HTTPException 500")
  /\ UNCHANGED << searchVars, locVars, areaVars, conVars, api_key, anaParams, dresponse, details,
                  completion, model_calls, decode_attempts, validated, path, analysis >>

\* get_place_details issues its request
DRequestDetails ==
  /\ dpc = "start"
  /\ api_key
  /\ dpc' = "get_details"
  /\ UNCHANGED << searchVars, locVars, areaVars, conVars, api_key, anaParams, dresponse, details,
                  completion, model_calls, decode_attempts, validated, path, analysis,
                  draised >>

\* the detail response arrives at get_restaurant_details
DDetailsEndpoint ==
  /\ dpc = "get_details"
  /\ endpoint = "details"
  /\ \E resp \in DetailResponses :
       /\ dresponse' = resp
       /\ LET fetched == get_place_details(resp)
          IN  /\ details' = fetched.value
              /\ IF fetched.exc # "none" THEN DRaise(fetched.exc)
                 ELSE IF ~fetched.value.found THEN DRaise("HTTPException 404")
                 ELSE dpc' = "returned" /\ draised' = draised
  /\ UNCHANGED << searchVars, locVars, areaVars, conVars, api_key, anaParams, completion, model_calls,
                  decode_attempts, validated, path, analysis >>

\* the detail response arrives at get_restaurant_ai_analysis, which goes on
\* to analyze_single_restaurant: without a client analyze_restaurant
\* returns None at once, else the model call is made
DDetailsAnalysis ==
  /\ dpc = "get_details"
  /\ endpoint = "analysis"
  /\ \E resp \in DetailResponses :
       /\ dresponse' = resp
       /\ LET fetched == get_place_details(resp)
          IN  /\ details' = fetched.value
              /\ IF fetched.exc # "none"
                 THEN DRaise(fetched.exc) /\ UNCHANGED << model_calls, path, analysis >>
                 ELSE IF ~fetched.value.found
                 THEN DRaise("HTTPException 404") /\ UNCHANGED << model_calls, path, analysis >>
                 ELSE IF ~openai_key
                 THEN DFinish(NoAnalysis, fetched.value) /\ model_calls' = model_calls
                 ELSE /\ dpc' = "model_call"
                      /\ model_calls' = model_calls + 1
                      /\ UNCHANGED << path, analysis, draised >>
  /\ UNCHANGED << searchVars, locVars, areaVars, conVars, api_key, anaParams, completion,
                  decode_attempts, validated >>

\* the model call ends; analyze_restaurant parses and validates, and
\* analyze_single_restaurant falls back when it got None
DModelReturns ==
  /\ dpc = "model_call"
  /\ \E c \in Completions :
       /\ completion' = c
       /\ LET ai == analyze_restaurant(ai_module, c)
          IN  /\ decode_attempts' = ai.decodes
              /\ validated' = ai.validated
              /\ IF ai.exc # "none"
                 THEN DRaise(ai.exc) /\ UNCHANGED << path, analysis >>
                 ELSE DFinish(ai.value, details)
  /\ UNCHANGED << searchVars, locVars, areaVars, conVars, api_key, anaParams, dresponse, details,
                  model_calls >>

ANext ==
  \/ DMissingKey
  \/ DRequestDetails
  \/ DDetailsEndpoint
  \/ DDetailsAnalysis
  \/ DModelReturns

SpecAnalysis == AInit /\ [][ANext]_vars

\* ------------------------------- properties of the details and analysis
DTerminal == dpc \in {"returned", "raised"}

\* the detail request failed or its status was not OK
DetailFetchFailed ==
  \/ dresponse.kind \in {"transport_error", "http_status_error", "bad_json"}
  \/ dresponse.kind = "json" /\ dresponse.status # "OK"

\* C11: a transport failure, an HTTP error, a malformed response and a
\* non-OK status all make get_place_details return the empty result, and
\* the detail and analysis endpoints answer "not found" without a model
\* call.
C11_DetailFailureIsNotFound ==
  /\ draised \notin {"httpx.HTTPError", "ValueError"}
  /\ DetailFetchFailed =>
       /\ details = NoDetails
       /\ dpc = "raised"
       /\ draised = "HTTPException 404"
       /\ model_calls = 0
       /\ path = "none"
       /\ analysis = NoAnalysis

\* the analysis endpoint, with a model credential, got a malformed detail
\* response and answered 404
C11_Witness ==
  /\ endpoint = "analysis"
  /\ openai_key
  /\ dresponse.kind = "bad_json"
  /\ draised = "HTTPException 404"

\* C17: without a model credential analyze_single_restaurant returns the
\* fallback result and attempts no model call.
C17_NoCredentialFallback ==
  (DTerminal /\ endpoint = "analysis" /\ details.found /\ ~openai_key) =>
    /\ model_calls = 0
    /\ dpc = "returned"
    /\ path = "fallback"
    /\ analysis.complete
    /\ analysis.confidence_score = 30

\* C18: when the model call raises or returns an empty completion,
\* analyze_single_restaurant returns the fallback object, propagates no
\* error and has made exactly one model call.
C18_ModelFailureFallback ==
  (DTerminal /\ completion.kind \in {"raises", "empty"}) =>
    /\ model_calls = 1
    /\ dpc = "returned"
    /\ path = "fallback"
    /\ analysis.complete
    /\ analysis.confidence_score = 30

\* C19: in the backend service every JSON object the model sends, also one
\* without any expected field, becomes a complete analysis without the
\* fallback.
C19_ValidateCompletes ==
  (DTerminal /\ ai_module = "backend" /\ completion.kind = "text"
     /\ completion.shape # "non_object" /\ Parses(ai_module, completion)) =>
    /\ dpc = "returned"
    /\ path = "ai"
    /\ analysis.complete

\* C20: every analysis returned has a confidence_score within [0, 1].
C20_ConfidenceInRange ==
  (dpc = "returned" /\ endpoint = "analysis") =>
    /\ 0 <= analysis.confidence_score
    /\ analysis.confidence_score <= 100

\* the five values overall_rating is documented to take
OverallRatings == {"Excellent", "Very Good", "Good", "Fair", "Poor"}

\* C21: every analysis returned to a caller, from the AI path or from the
\* fallback, has an overall_rating among Excellent, Very Good, Good, Fair
\* and Poor.
C21_OverallRatingIsOneOfFive ==
  (dpc = "returned" /\ endpoint = "analysis") =>
    analysis.overall_rating \in OverallRatings

\* the backend service decoded a JSON object that carries a confidence_score
ConfidenceSent ==
  /\ ai_module = "backend"
  /\ completion.kind = "text"
  /\ completion.shape \in {"json", "prose_json"}
  /\ completion.doc.confidence_score.kind # "missing"

\* C22: VALIDATE turns the confidence_score the model sent into a float
\* within [0, 1]: a value above 1, also one given as a string, becomes 1.0,
\* a value below 0 becomes 0.0, a value in the range is kept and a value
\* that is no number becomes 0.5.
C22_ConfidenceCoercedAndClamped ==
  (DTerminal /\ ConfidenceSent) =>
    LET sent == completion.doc.confidence_score
        made == validated.value.confidence_score
    IN  /\ validated.exc = "none"
        /\ made.kind = "number"
        /\ 0 <= made.value /\ made.value <= 100
        /\ (sent.kind = "huge_integer") => made.value = 100
        /\ (sent.kind \in {"number", "numeric_string"} /\ sent.value > 100) => made.value = 100
        /\ (sent.kind \in {"number", "numeric_string"} /\ sent.value < 0) => made.value = 0
        /\ (sent.kind \in {"number", "numeric_string"} /\ sent.value \in 0..100) =>
             made.value = sent.value
        /\ (sent.kind \in {"text", "null"}) => made.value = 50

\* C23: for every place record the analysis endpoint passes, also one
\* whose rating, rating count or price level is null, the fallback
\* produces a complete analysis, so analyze_single_restaurant returns and
\* does not raise.
C23_FallbackAlwaysReturns ==
  (DTerminal /\ endpoint = "analysis" /\ details.found /\ path = "fallback") =>
    /\ dpc = "returned"
    /\ draised = "none"
    /\ analysis.complete

\* the backend service received a text from the model
TextReceived == DTerminal /\ ai_module = "backend" /\ completion.kind = "text"

\* _validate_analysis_dict was called
ValidateRan == validated.exc # "not run"

FallbackReturned == dpc = "returned" /\ endpoint = "analysis" /\ path = "fallback"

\* round(rating * 2) for a rating in tenths; rating * 2 never lies halfway
\* between two integers
RoundedDouble(rating) == (rating * 2 + 5) \div 10

\* C25: the food, service and atmosphere scores of a fallback analysis
\* equal round(rating * 2) for every numeric rating in [0, 5]; a rating of
\* 4.3 gives 9.
C25_FallbackScoreIsRounded ==
  FallbackReturned => analysis.score = RoundedDouble(details.rating)

\* the thresholds of the fallback as the specification states them
ThresholdRating(rating) ==
  CASE rating >= 45 -> "Excellent"
    [] rating >= 40 /\ rating < 45 -> "Very Good"
    [] rating >= 35 /\ rating < 40 -> "Good"
    [] rating >= 30 /\ rating < 35 -> "Fair"
    [] rating < 30 -> "Poor"

\* C26: a fallback analysis has overall_rating Excellent for a rating of at
\* least 4.5, Very Good from 4.0, Good from 3.5, Fair from 3.0 and Poor
\* below, and its confidence_score is 0.3.
C26_FallbackThresholds ==
  FallbackReturned =>
    /\ analysis.overall_rating = ThresholdRating(details.rating)
    /\ analysis.confidence_score = 30

\* the fallback rated a place with exactly 4.5 stars Excellent, with
\* confidence 0.3
C26_Witness ==
  /\ FallbackReturned
  /\ details.rating = 45
  /\ analysis.overall_rating = "Excellent"
  /\ analysis.confidence_score = 30

\* C28: every category score of a fallback analysis lies between 1 and 10,
\* for every rating in [0, 5].
C28_FallbackScoresInRange ==
  FallbackReturned =>
    /\ analysis.score \in 1..10
    /\ analysis.value_score \in 1..10

\* --------------------------- the search against an upstream without end
\* The page loop of find_restaurants has no counter of its own: it goes on
\* while the upstream hands out a continuation token and fewer than
\* max_results places passed.  Here every page may carry a token; the
\* records of what was requested and what arrived (log, arrived) are left
\* alone, so that the state is the program's own: its parameters, pc,
\* restaurants, next_page_token and the last response.
EndlessFirstRequest ==
  /\ pc = "start"
  /\ api_key
  /\ pc' = "get"
  /\ UNCHANGED << params, restaurants, next_page_token, response, log, arrived,
                  raised, returned, cancelled, locVars, anaVars, areaVars, conVars >>

\* the first page arrives: no response was received before
EndlessFirstPage ==
  /\ pc = "get"
  /\ response = NoResponse
  /\ \E resp \in HttpResponses(TRUE) :
       /\ response' = resp
       /\ FirstPageArrives(resp)
  /\ UNCHANGED << params, log, arrived, cancelled, locVars, anaVars, areaVars, conVars >>

\* await asyncio.sleep(2) completes and the continuation request is issued
EndlessSleepThenRequest ==
  /\ pc = "sleep"
  /\ pc' = "get"
  /\ UNCHANGED << params, restaurants, next_page_token, response, log, arrived,
                  raised, returned, cancelled, locVars, anaVars, areaVars, conVars >>

\* a continuation page arrives
EndlessNextPage ==
  /\ pc = "get"
  /\ response # NoResponse
  /\ \E resp \in HttpResponses(TRUE) :
       /\ response' = resp
       /\ NextPageArrives(resp)
  /\ UNCHANGED << params, log, arrived, cancelled, locVars, anaVars, areaVars, conVars >>

NextEndless ==
  \/ MissingKey
  \/ EndlessFirstRequest
  \/ EndlessFirstPage
  \/ EndlessSleepThenRequest
  \/ EndlessNextPage

\* every remote call and every sleep returns and the event loop resumes the
\* coroutine: a step that can be taken is taken
SpecEndless == Init /\ [][NextEndless]_vars /\ WF_vars(NextEndless)

\* C29: whatever the upstream does, as long as each remote call returns, a
\* search ends: find_restaurants eventually returns a result or raises,
\* also when every page carries a continuation token and no place passes
\* the rating filter.
C29_SearchTerminates == <>Terminal

\* ------------------------------------------------------- area analysis
\* outcomes of the model call of analyze_area_restaurants
AreaCompletions == {"raises", "empty", "text"}

\* analyze_area_restaurants: a fixed sentence without a client or without
\* restaurants, else the model's text, "No analysis generated" for an empty
\* one, or the error sentence when the call raises
analyze_area_restaurants(has_client, rs, outcome) ==
  IF ~has_client THEN "AI analysis not available - OpenAI API key not configured"
  ELSE IF rs = << >> THEN "No restaurants found in this area."
  ELSE CASE outcome = "raises" -> "Error generating area analysis"
         [] outcome = "empty" -> "No analysis generated"
         [] outcome = "text" -> "analysis"

\* get_area_restaurant_analysis has called
\* find_restaurants(lat, lng, radius, max_results=20): min_rating is the
\* Query object of the signature
AreaInit ==
  /\ LocIdle
  /\ ConIdle
  /\ lat \in OriginLats
  /\ lng \in OriginLngs
  /\ radius \in Radii
  /\ min_rating = QueryObject
  /\ max_results = AreaMaxResults
  /\ api_key \in BOOLEAN
  /\ pc = "start"
  /\ restaurants = << >>
  /\ next_page_token = None
  /\ response = NoResponse
  /\ log = << >>
  /\ arrived = << >>
  /\ raised = NoExc
  /\ returned = NoReturn
  /\ cancelled = FALSE
  /\ endpoint = "none"
  /\ ai_module = "none"
  /\ openai_key \in BOOLEAN
  /\ dpc = "idle"
  /\ dresponse = NoDetailResponse
  /\ details = NoDetails
  /\ completion = NoCompletion
  /\ model_calls = 0
  /\ decode_attempts = 0
  /\ validated = NotValidated
  /\ path = "none"
  /\ analysis = NoAnalysis
  /\ draised = "none"
  /\ apc = "search"
  /\ area_result = NoAreaResult
  /\ araised = NoExc

\* find_restaurants raised: the endpoint has no handler, the exception
\* leaves it
AreaSearchRaised ==
  /\ apc = "search"
  /\ pc = "raised"
  /\ apc' = "raised"
  /\ araised' = raised
  /\ UNCHANGED << searchVars, api_key, locVars, anaVars, conVars, area_result >>

\* find_restaurants returned: the list is rebuilt, analyze_restaurant_area
\* is awaited and the answer is returned
AreaAnalyze ==
  /\ apc = "search"
  /\ pc = "returned"
  /\ \E outcome \in AreaCompletions :
       area_result' =
         [restaurants_analyzed |-> Len(returned.restaurants),
          area_analysis |-> analyze_area_restaurants(openai_key, returned.restaurants, outcome)]
  /\ apc' = "returned"
  /\ UNCHANGED << searchVars, api_key, locVars, anaVars, conVars, araised >>

NextArea ==
  \/ MissingKey
  \/ FirstRequest
  \/ FirstPage
  \/ SleepThenRequest
  \/ NextPage
  \/ AreaSearchRaised
  \/ AreaAnalyze

SpecArea == AreaInit /\ [][NextArea]_vars

ATerminal == apc \in {"returned", "raised"}

\* every response of the upstream search was a page with status OK and at
\* least one place arrived
UpstreamFoundPlaces ==
  /\ response.kind = "json"
  /\ response.status = "OK"
  /\ arrived # << >>

\* C30: when the upstream search succeeds and returns at least one place,
\* the area analysis completes and reports an analysis over the places
\* found, at least one and at most 20, instead of failing.
C30_AreaAnalysisCompletes ==
  (ATerminal /\ UpstreamFoundPlaces) =>
    /\ apc = "returned"
    /\ area_result.restaurants_analyzed \in 1..AreaMaxResults

\* ------------------------------------------------- concurrent requests
\* Requests are coroutines on one event loop: a step runs from one await
\* to the next and steps of different requests interleave.  Every handler
\* keeps its data in local variables; the module-level objects
\* (location_service, ai_service, the keys) are not written after import.
TaskIds == {1, 2}

\* the analysis service src/main.py imports
ConModule == "src"

ConLat == CHOOSE x \in OriginLats : TRUE
ConLng == CHOOSE x \in OriginLngs : TRUE

ConPages == { << Place(45, 20) >>, << Place(39, 25), Place(45, 20) >> }

\* responses to a search request: a transport failure, a status other
\* than OK, or a page with or without a continuation token
ConResponses(more) ==
  { [kind |-> "transport_error", status |-> "", results |-> << >>, next_page_token |-> None],
    [kind |-> "json", status |-> "ZERO_RESULTS", results |-> << >>, next_page_token |-> None] }
  \cup
  { [kind |-> "json", status |-> "OK", results |-> p, next_page_token |-> t] :
      p \in ConPages, t \in (IF more THEN {None, 1} ELSE {None}) }

ConDetailResponses ==
  { DetailResponse("transport_error", "", FALSE, None, None, None),
    DetailResponse("json", "OK", TRUE, 45, 120, 3),
    DetailResponse("json", "OK", TRUE, None, None, None) }

ConCompletions ==
  { Completion("raises", "none", "no_json", NoDocument),
    Completion("text", "none", "json",
               Document("Excellent", "present", "present", "present",
                        Confidence("number", 85))) }

NoOutcome == [status |-> "none"]

\* the local variables of a coroutine: of find_restaurants (its list lives
\* on the heap) or of get_restaurant_ai_analysis; seen holds the responses
\* it received, interleaved tells that it took a step while another
\* request was suspended half-way
Task(kind, min_r, max_r) ==
  [kind |-> kind, pc |-> "start", min_rating |-> min_r, max_results |-> max_r,
   next_page_token |-> None, details |-> NoDetails, seen |-> << >>,
   outcome |-> NoOutcome, interleaved |-> FALSE]

SearchTasks == { Task("search", m, n) : m \in MinRatings, n \in 1..MaxResultsBound }

\* one list for every request, whoever created it
SharedAccumulator(t) == 1

\* restaurants = []: the list a call of find_restaurants appends to is the
\* one it created itself
Accumulator(t) == t

ConInit ==
  /\ SearchIdle
  /\ LocIdle
  /\ AnaIdle
  /\ AreaIdle
  /\ api_key = TRUE
  /\ tasks \in { [t \in TaskIds |-> IF t = 1 THEN a ELSE b] :
                   a \in SearchTasks, b \in SearchTasks \cup { Task("analysis", None, None) } }
  /\ heap = [t \in TaskIds |-> << >>]

\* what a coroutine of find_restaurants holds between two awaits
SearchView(rs, token, outcome) ==
  [restaurants |-> rs, next_page_token |-> token, outcome |-> outcome]

SearchRaised(view, exc) ==
  SearchView(view.restaurants, view.next_page_token,
             [status |-> "raised", value |-> ExceptClauses(exc, TRUE)])

\* restaurants.sort(...) sorts the list in place, then the response is built
SearchReturned(rs, token) ==
  SearchView(SortRestaurants(rs), token,
             [status |-> "returned", value |-> RestaurantSearchResponse(SortRestaurants(rs))])

\* find_restaurants from the arrival of a response to the next await or to
\* its end; first tells the first page from a continuation page
SearchReceives(first, view, min_r, max_r, resp) ==
  CASE resp.kind \in {"transport_error", "http_status_error"} ->
         SearchRaised(view, Exc("httpx.HTTPError", 0, "", ""))
    [] resp.kind = "bad_json" ->
         SearchRaised(view, Exc("ValueError", 0, "", ""))
    [] resp.kind = "json" /\ resp.status # "OK" /\ first ->
         SearchRaised(view, Exc("HTTPException", 400, "Google Places API error", resp.status))
    [] resp.kind = "json" /\ resp.status # "OK" /\ ~first ->
         SearchReturned(view.restaurants, view.next_page_token)
    [] resp.kind = "json" /\ resp.status = "OK" ->
         LET rs == ProcessResults(view.restaurants, resp.results, ConLat, ConLng, min_r, max_r)
         IN  IF resp.next_page_token # None /\ Len(rs) < max_r
             THEN SearchView(rs, resp.next_page_token, NoOutcome)
             ELSE SearchReturned(rs, resp.next_page_token)

InFlight(t) == tasks[t].pc \in {"get", "sleep", "get_details", "model_call"}

Overlaps(t) == tasks[t].interleaved \/ \E u \in TaskIds \ {t} : InFlight(u)

PcAfter(outcome, suspended) ==
  IF outcome = NoOutcome THEN suspended ELSE outcome.status

\* a request starts and suspends in its first remote call
ConRequest(t) ==
  /\ tasks[t].pc = "start"
  /\ tasks' = [tasks EXCEPT ![t].pc = IF tasks[t].kind = "search" THEN "get" ELSE "get_details",
                            ![t].interleaved = Overlaps(t)]
  /\ UNCHANGED << searchVars, api_key, locVars, anaVars, areaVars, heap >>

\* a search receives a page and runs to its next await or to its end
ConPage(t) ==
  /\ tasks[t].pc = "get"
  /\ \E resp \in ConResponses(Len(tasks[t].seen) + 1 < MaxPages) :
       LET view == SearchView(heap[Accumulator(t)], tasks[t].next_page_token,
                              tasks[t].outcome)
           new == SearchReceives(tasks[t].seen = << >>, view, tasks[t].min_rating,
                                 tasks[t].max_results, resp)
       IN  /\ heap' = [heap EXCEPT ![Accumulator(t)] = new.restaurants]
           /\ tasks' = [tasks EXCEPT ![t].pc = PcAfter(new.outcome, "sleep"),
                                     ![t].next_page_token = new.next_page_token,
                                     ![t].outcome = new.outcome,
                                     ![t].seen = Append(@, resp),
                                     ![t].interleaved = Overlaps(t)]
  /\ UNCHANGED << searchVars, api_key, locVars, anaVars, areaVars >>

\* await asyncio.sleep(2) is over and the continuation request is issued
ConSleep(t) ==
  /\ tasks[t].pc = "sleep"
  /\ tasks' = [tasks EXCEPT ![t].pc = "get", ![t].interleaved = Overlaps(t)]
  /\ UNCHANGED << searchVars, api_key, locVars, anaVars, areaVars, heap >>

\* the analysis endpoint after get_place_details: 404 without details,
\* else on to the model call
AnalysisFetched(resp) ==
  LET fetched == get_place_details(resp)
  IN  IF fetched.value.found
      THEN [details |-> fetched.value, outcome |-> NoOutcome]
      ELSE [details |-> fetched.value,
            outcome |-> [status |-> "raised", value |-> "HTTPException 404"]]

\* analyze_single_restaurant after the model call
AnalysisMade(restaurant_data, c) ==
  LET ai == analyze_restaurant(ConModule, c)
      fallback == create_fallback_analysis(restaurant_data)
  IN  IF ai.value # NoAnalysis THEN [status |-> "returned", value |-> ai.value]
      ELSE IF fallback.exc # "none" THEN [status |-> "raised", value |-> fallback.exc]
      ELSE [status |-> "returned", value |-> fallback.value]

\* an analysis receives the place details
ConDetails(t) ==
  /\ tasks[t].pc = "get_details"
  /\ \E resp \in ConDetailResponses :
       LET new == AnalysisFetched(resp)
       IN  tasks' = [tasks EXCEPT ![t].pc = PcAfter(new.outcome, "model_call"),
                                  ![t].details = new.details,
                                  ![t].outcome = new.outcome,
                                  ![t].seen = Append(@, resp),
                                  ![t].interleaved = Overlaps(t)]
  /\ UNCHANGED << searchVars, api_key, locVars, anaVars, areaVars, heap >>

\* an analysis receives the model's completion
ConModel(t) ==
  /\ tasks[t].pc = "model_call"
  /\ \E c \in ConCompletions :
       LET new == AnalysisMade(tasks[t].details, c)
       IN  tasks' = [tasks EXCEPT ![t].pc = new.status,
                                  ![t].outcome = new,
                                  ![t].seen = Append(@, c),
                                  ![t].interleaved = Overlaps(t)]
  /\ UNCHANGED << searchVars, api_key, locVars, anaVars, areaVars, heap >>

NextConcurrent ==
  \E t \in TaskIds :
    \/ ConRequest(t)
    \/ ConPage(t)
    \/ ConSleep(t)
    \/ ConDetails(t)
    \/ ConModel(t)

SpecConcurrent == ConInit /\ [][NextConcurrent]_vars

\* ---------------------------------- properties of concurrent requests
\* a search run alone on the responses seen, from the empty list
RECURSIVE SearchAlone(_, _, _, _, _)
SearchAlone(first, view, min_r, max_r, seen) ==
  IF seen = << >> THEN view
  ELSE SearchAlone(FALSE, SearchReceives(first, view, min_r, max_r, Head(seen)),
                   min_r, max_r, Tail(seen))

\* an analysis run alone on the responses seen
AnalysisAlone(seen) ==
  IF seen = << >> THEN NoOutcome
  ELSE LET fetched == AnalysisFetched(seen[1])
       IN  IF Len(seen) = 1 THEN fetched.outcome
           ELSE AnalysisMade(fetched.details, seen[2])

\* C27: requests are independent under interleaving: at every moment the
\* list, the page token and the outcome of each request are those it would
\* have after the same responses when run alone, so each returns exactly
\* what it would return alone.
C27_RequestsIndependent ==
  \A t \in DOMAIN tasks :
    IF tasks[t].kind = "search"
    THEN SearchView(heap[t], tasks[t].next_page_token, tasks[t].outcome)
           = SearchAlone(TRUE, SearchView(<< >>, None, NoOutcome),
                         tasks[t].min_rating, tasks[t].max_results, tasks[t].seen)
    ELSE tasks[t].outcome = AnalysisAlone(tasks[t].seen)

\* two searches with different filters interleaved over two pages each
\* and returned different, non-empty results
C27_Witness ==
  /\ DOMAIN tasks = TaskIds
  /\ \A t \in TaskIds :
       /\ tasks[t].kind = "search"
       /\ tasks[t].interleaved
       /\ Len(tasks[t].seen) = 2
       /\ tasks[t].outcome.status = "returned"
       /\ tasks[t].outcome.value.total_found > 0
  /\ tasks[1].outcome # tasks[2].outcome
====
